---- MODULE Spec2Model ----
(***************************************************************************)
(* Model of the jam-conformance summary aggregator.                        *)
(*   src/index.ts          the full variant (links, transposed table)      *)
(*   src/unnamed/part_000  the simplified variant (one row per team)       *)
(* One run of main() is a sequence of steps (clone/fetch, branch listing,  *)
(* per-branch checkout and scan, merged report, table, README splice);     *)
(* run.sh may be invoked again on the files the previous run left behind.  *)
(*                                                                         *)
(* Text is modelled as sequences: summary-file content is a sequence of    *)
(* character codes, file names and git output lines are sequences of       *)
(* string fragments, the README is a sequence of tokens.                   *)
(***************************************************************************)
EXTENDS Integers, Sequences, FiniteSets, TLC

\* ------------------------------------------------------------------ bounds
MaxBranches == 2
MaxRuns == 2

\* --------------------------------------------------------- character codes
RED == 128308
GREEN == 128994
WHITE == 9898
NL == 10
SP == 32
USCORE == 95
D(n) == 48 + n

Digits == {D(n) : n \in 0..9}
IdCharsFull == Digits \cup {USCORE}
IdCharsSimple == Digits

\* ------------------------------------------------------- sequence helpers
\* String.prototype.indexOf on a token sequence; 0 stands for -1
IndexOf(s, x) ==
  IF \E i \in 1..Len(s) : s[i] = x
  THEN CHOOSE i \in 1..Len(s) : s[i] = x /\ \A j \in 1..(i-1) : s[j] # x
  ELSE 0

\* String.prototype.replace with a string pattern: first occurrence only
RemoveFirst(s, x) ==
  LET i == IndexOf(s, x)
  IN IF i = 0 THEN s ELSE SubSeq(s, 1, i - 1) \o SubSeq(s, i + 1, Len(s))

\* content.split("\n"): the pieces between consecutive newlines
Split(s) ==
  LET nl == {i \in 1..Len(s) : s[i] = NL}
      n == Cardinality(nl) + 1
      Break(k) == IF k = 0 THEN 0
                  ELSE IF k = n THEN Len(s) + 1
                  ELSE CHOOSE p \in nl : Cardinality({q \in nl : q <= p}) = k
  IN [k \in 1..n |-> SubSeq(s, Break(k - 1) + 1, Break(k) - 1)]

\* the \s characters the inputs use: tab and space
Spaces == {9, SP}

\* evaluates x once and applies F to its value
Bind(x, F(_)) == CHOOSE r \in {F(v) : v \in {x}} : TRUE

\* line.match(/([RED GREEN])\s+([0-9_]+)/u): the leftmost glyph that is
\* followed by whitespace up to w and then by identifier characters; the
\* identifier group is greedy and ends at e.
\* Result: <<>> for null, else <<[status, traceId]>>
Match(line, idChars) ==
  LET n == Len(line)
      WsEnd(i) == { w \in (i + 1)..(n - 1) :
                      /\ \A j \in (i + 1)..w : line[j] \in Spaces
                      /\ line[w + 1] \in idChars }
      starts == { i \in 1..n : line[i] \in {RED, GREEN} /\ WsEnd(i) # {} }
  IN IF starts = {} THEN <<>>
     ELSE LET i == CHOOSE k \in starts : \A m \in starts : k <= m
              w == CHOOSE k \in WsEnd(i) : TRUE
              e == CHOOSE k \in (w + 1)..n :
                     /\ \A j \in (w + 1)..k : line[j] \in idChars
                     /\ k = n \/ line[k + 1] \notin idChars
          IN <<[status |-> line[i], traceId |-> SubSeq(line, w + 1, e)]>>

\* default Array.prototype.sort order on strings: code unit by code unit
LexLess(a, b) ==
  \E k \in 1..(Len(b)) :
    /\ \A j \in 1..(k - 1) : j <= Len(a) /\ a[j] = b[j]
    /\ k > Len(a) \/ a[k] < b[k]

\* ------------------------------------------------------------- file names
FragRank(f) ==
  CASE f = ".md" -> 1
    [] f = ".txt" -> 2
    [] f = "alice" -> 3
    [] f = "bob" -> 4
    [] f = "notes" -> 5
    [] f = "summary_" -> 6
    [] f = "typeberry" -> 7
    [] OTHER -> 8

Ranks(name) == [i \in 1..Len(name) |-> FragRank(name[i])]

\* f.startsWith("summary_") && f.endsWith(".txt")
IsSummaryFile(f) == Len(f) >= 2 /\ f[1] = "summary_" /\ f[Len(f)] = ".txt"

\* file.replace("summary_", "").replace(".txt", "")
TeamName(f) == RemoveFirst(RemoveFirst(f, "summary_"), ".txt")

\* readdirSync(summariesDir).filter(...)
SelectSummaries(dir) == SelectSeq([i \in 1..Len(dir) |-> dir[i].name], IsSummaryFile)

TYPEBERRY == <<"typeberry">>

\* a.localeCompare(b) < 0
LocaleLess(a, b) == LexLess(Ranks(a), Ranks(b))

\* comparator of the full variant < 0
TeamBeforeFull(a, b) ==
  IF a = TYPEBERRY THEN TRUE
  ELSE IF b = TYPEBERRY THEN FALSE
  ELSE LocaleLess(a, b)

RECURSIVE SortTraces(_)
SortTraces(S) ==
  IF S = {} THEN <<>>
  ELSE LET m == CHOOSE x \in S : \A y \in S \ {x} : LexLess(x, y)
       IN <<m>> \o SortTraces(S \ {m})

RECURSIVE SortTeamsFull(_)
SortTeamsFull(S) ==
  IF S = {} THEN <<>>
  ELSE LET m == CHOOSE x \in S : \A y \in S \ {x} : TeamBeforeFull(x, y)
       IN <<m>> \o SortTeamsFull(S \ {m})

RECURSIVE SortTeamsSimple(_)
SortTeamsSimple(S) ==
  IF S = {} THEN <<>>
  ELSE LET m == CHOOSE x \in S : \A y \in S \ {x} : LocaleLess(x, y)
       IN <<m>> \o SortTeamsSimple(S \ {m})

\* --------------------------------------------------------------- the world
\* What the remote repository holds on each branch.  A branch is one of the
\* shapes of BranchMenu:
\*   checkoutOk  whether `git checkout -f` succeeds
\*   summaries   "absent" | "dir": fuzz-reports/0.7.2/summaries
\*   dir         its entries in readdir order: name, readable (false: the
\*               entry is a directory, readFileSync throws), content
\*   traceDirs   the trace ids with a directory under fuzz-reports/0.7.2/traces
T1 == <<D(1)>>
T2 == <<D(2)>>
T12 == <<D(1), USCORE, D(2)>>

File(name, readable, content) ==
  [name |-> name, readable |-> readable, content |-> content]

AliceTxt == <<"summary_", "alice", ".txt">>
BobTxt == <<"summary_", "bob", ".txt">>
TypeberryTxt == <<"summary_", "typeberry", ".txt">>
NotesMd == <<"notes", ".md">>

BranchMenu ==
  << \* 1: alice passes trace 1 and fails trace 2
     [checkoutOk |-> TRUE, summaries |-> "dir",
      dir |-> << File(AliceTxt, TRUE, <<GREEN, SP, D(1), NL, RED, SP, D(2), NL>>) >>,
      traceDirs |-> {T1}],
     \* 2: bob fails trace 1
     [checkoutOk |-> TRUE, summaries |-> "dir",
      dir |-> << File(BobTxt, TRUE, <<RED, SP, D(1)>>) >>,
      traceDirs |-> {T1, T2}],
     \* 3: the checkout fails
     [checkoutOk |-> FALSE, summaries |-> "absent", dir |-> <<>>, traceDirs |-> {}],
     \* 4: alice reports trace 1 twice, then summary_bob.txt cannot be read
     [checkoutOk |-> TRUE, summaries |-> "dir",
      dir |-> << File(AliceTxt, TRUE, <<120, NL, GREEN, SP, D(1), NL, RED, SP, D(1)>>),
                 File(BobTxt, FALSE, <<>>) >>,
      traceDirs |-> {T1}],
     \* 5: a file that is no summary; typeberry with a line without whitespace
     \*    and a compound identifier
     [checkoutOk |-> TRUE, summaries |-> "dir",
      dir |-> << File(NotesMd, TRUE, <<RED, SP, D(2)>>),
                 File(TypeberryTxt, TRUE,
                      <<GREEN, SP, D(2), NL, RED, D(1), NL, GREEN, 9, SP, D(1), USCORE, D(2), SP, 120>>) >>,
      traceDirs |-> {T12}],
     \* 6: no summaries directory
     [checkoutOk |-> TRUE, summaries |-> "absent", dir |-> <<>>, traceDirs |-> {T1}] >>

BranchNames == <<"b1", "b2", "b3", "b4">>

RECURSIVE SeqsUpTo(_, _)
\* the sequences over S of length at most n
SeqsUpTo(S, n) ==
  IF n = 0 THEN {<<>>}
  ELSE LET shorter == SeqsUpTo(S, n - 1)
       IN shorter \cup {Append(q, x) : q \in shorter, x \in S}

\* README tokens: a marker, a piece of text, a newline or a rendered table
Tok(s) == [tok |-> s, tbl |-> <<>>]
TableTok(t) == [tok |-> "table", tbl |-> t]
startMarker == Tok("<!-- CONFORMANCE_TABLE_START -->")
endMarker == Tok("<!-- CONFORMANCE_TABLE_END -->")
NLTok == Tok("\n")

ReadmeMenu ==
  { [exists |-> FALSE, content |-> <<>>],
    [exists |-> TRUE, content |-> <<Tok("a"), startMarker, NLTok, endMarker, Tok("b")>>],
    [exists |-> TRUE, content |-> <<startMarker, Tok("a"), startMarker, Tok("old"), endMarker, Tok("b"), endMarker>>],
    [exists |-> TRUE, content |-> <<Tok("a"), endMarker, Tok("b"), startMarker, Tok("c")>>],
    [exists |-> TRUE, content |-> <<Tok("a"), startMarker, Tok("b")>>],
    [exists |-> TRUE, content |-> <<Tok("a"), endMarker>>] }

EmptyMap == [x \in {} |-> TRUE]

Put(f, k, v) == [x \in DOMAIN f \cup {k} |-> IF x = k THEN v ELSE f[x]]

\* ------------------------------------------------------------------- state
VARIABLES
  variant,          \* "full" (src/index.ts) or "simplified" (src/unnamed/part_000)
  remote,           \* the remote's branches: indices into BranchMenu, in listing order
  workDirExists,    \* ./repo exists
  readme,           \* README.md on disk
  outputFile,       \* merged_summary.md on disk
  run,              \* number of the current invocation of run.sh
  pc,               \* position of main()
  branches,         \* const branches
  bi,               \* index of the branch the for loop is at
  files,            \* const files of the branch being scanned
  fi,               \* index of the file the inner loop is at
  results,          \* trace id -> (team -> status)
  traceBranchMap,   \* trace id -> branch name (full variant)
  allTeams,         \* set of team names
  toc,              \* table of contents (full variant)
  bodyContent,      \* bodyContent (full) / mergedContent (simplified)
  interestingTraces,
  boringTraces,
  mdTable,          \* rows of cells
  errors,           \* console.error lines
  exitCode,         \* -1 while the process runs
  \* history variables: they record what happened, no action reads them
  attempted,        \* branches `git checkout` was invoked on, in order
  scanned,          \* branches whose summaries directory was looked for, in order
  sighted,          \* <<trace id, branch index>>: a matching line was parsed there
  snap,             \* the aggregation state when the current branch was entered
  setupFailed,      \* clone, fetch or branch listing failed in this run
  readmeAtStart,    \* README.md when this run started
  wrote,            \* this run wrote README.md
  prevDone,         \* the previous run reached "Done!"
  prevTable,        \* the table the previous run rendered
  prevReadme        \* README.md as the previous run left it

world == <<variant, remote>>
disk == <<workDirExists, readme, outputFile>>
agg == <<results, traceBranchMap, allTeams>>
report == <<toc, bodyContent>>
render == <<interestingTraces, boringTraces, mdTable>>
loopvars == <<branches, bi, files, fi>>
hist == <<attempted, scanned, sighted, snap, setupFailed, readmeAtStart, wrote>>
prev == <<prevDone, prevTable, prevReadme>>
vars == <<world, disk, agg, report, render, loopvars, hist, prev,
          run, pc, errors, exitCode>>

Full == variant = "full"

\* --------------------------------------------------------- branch listing
\* `git branch -r` prints "  origin/HEAD -> origin/<first>" and one line per
\* branch; the text ends with a newline, so split("\n") yields a last empty line
BranchesOutput(n) ==
  IF n = 0 THEN << <<>> >>
  ELSE << <<"  ", "origin/", "HEAD", " ", "->", " ", "origin/", BranchNames[1]>> >>
       \o [i \in 1..n |-> <<"  ", "origin/", BranchNames[i]>>]
       \o << <<>> >>

IsBlank(t) == t \in {" ", "  "}

RECURSIVE TrimLeft(_)
TrimLeft(l) == IF l # <<>> /\ IsBlank(Head(l)) THEN TrimLeft(Tail(l)) ELSE l

RECURSIVE TrimRight(_)
TrimRight(l) ==
  IF l # <<>> /\ IsBlank(l[Len(l)]) THEN TrimRight(SubSeq(l, 1, Len(l) - 1)) ELSE l

Trim(l) == TrimRight(TrimLeft(l))

\* b && !b.includes("->") && b.startsWith("origin/")
IsRemoteBranch(b) ==
  /\ b # <<>>
  /\ \A i \in 1..Len(b) : b[i] # "->"
  /\ b[1] = "origin/"

\* .split("\n").map(trim).filter(...).map(b => b.replace("origin/", ""))
ParseBranches(lines) ==
  LET trimmed == [i \in 1..Len(lines) |-> Trim(lines[i])]
      kept == SelectSeq(trimmed, IsRemoteBranch)
  IN [i \in 1..Len(kept) |-> RemoveFirst(kept[i], "origin/")]

\* the content of the remote branch called name
BranchIndex(name) == CHOOSE i \in 1..Len(remote) : <<BranchNames[i]>> = name
Checked(name) == BranchMenu[remote[BranchIndex(name)]]

\* -------------------------------------------------------------------- Init
ProcessInit ==
  /\ pc = "start"
  /\ branches = <<>>
  /\ bi = 1
  /\ files = <<>>
  /\ fi = 1
  /\ results = EmptyMap
  /\ traceBranchMap = EmptyMap
  /\ allTeams = {}
  /\ toc = <<>>
  /\ bodyContent = <<>>
  /\ interestingTraces = <<>>
  /\ boringTraces = <<>>
  /\ mdTable = <<>>
  /\ errors = <<>>
  /\ exitCode = -1
  /\ attempted = <<>>
  /\ scanned = <<>>
  /\ sighted = {}
  /\ snap = <<EmptyMap, EmptyMap, {}>>
  /\ setupFailed = FALSE
  /\ wrote = FALSE

Init ==
  /\ variant \in {"full", "simplified"}
  /\ remote \in SeqsUpTo(1..Len(BranchMenu), MaxBranches)
  /\ workDirExists = FALSE
  /\ readme \in ReadmeMenu
  /\ outputFile = [exists |-> FALSE, content |-> <<>>]
  /\ run = 1
  /\ ProcessInit
  /\ readmeAtStart = readme
  /\ prevDone = FALSE
  /\ prevTable = <<>>
  /\ prevReadme = readme

\* ----------------------------------------------------------- setup steps
\* index.ts 22-30: clone when ./repo is absent, else fetch; the shell call
\* throws when git exits non-zero, which rejects main()
EnsureWorkingCopy ==
  /\ pc = "start"
  /\ \E ok \in BOOLEAN :
       IF ok
       THEN /\ workDirExists' = TRUE
            /\ pc' = "list"
            /\ UNCHANGED setupFailed
       ELSE /\ pc' = "rejected"
            /\ setupFailed' = TRUE
            /\ UNCHANGED workDirExists
  /\ UNCHANGED <<world, readme, outputFile, agg, report, render, loopvars, prev,
                 run, errors, exitCode,
                 attempted, scanned, sighted, snap, readmeAtStart, wrote>>

\* index.ts 35-43
ListBranches ==
  /\ pc = "list"
  /\ \E ok \in BOOLEAN :
       IF ok
       THEN /\ branches' = ParseBranches(BranchesOutput(Len(remote)))
            /\ pc' = "loop"
            /\ UNCHANGED setupFailed
       ELSE /\ pc' = "rejected"
            /\ setupFailed' = TRUE
            /\ UNCHANGED branches
  /\ UNCHANGED <<world, disk, agg, report, render, bi, files, fi, prev,
                 run, errors, exitCode,
                 attempted, scanned, sighted, snap, readmeAtStart, wrote>>

\* ------------------------------------------------------- the branch loop
Entry(kind, name, data) == [kind |-> kind, name |-> name, data |-> data]

\* index.ts 91-95: results.get(traceId).set(teamName, status)
SetStatus(res, traceId, teamName, status) ==
  Put(res, traceId,
      Put(IF traceId \in DOMAIN res THEN res[traceId] ELSE EmptyMap, teamName, status))

\* mutant: the has() guard is missing, so a later branch overwrites
AssociateLatest(tbm, traceId, branch, traceDirs) ==
  IF traceId \in traceDirs THEN Put(tbm, traceId, branch) ELSE tbm

\* index.ts 98-103: the first branch with the trace's directory is kept
Associate(tbm, traceId, branch, traceDirs) ==
  IF traceId \notin DOMAIN tbm /\ traceId \in traceDirs
  THEN Put(tbm, traceId, branch)
  ELSE tbm

\* index.ts 86-104 / part_000 73-82: one line of a summary file
ParseLine(acc, line, teamName, branch, traceDirs, full) ==
  Bind(Match(line, IF full THEN IdCharsFull ELSE IdCharsSimple),
       LAMBDA m :
         IF m = <<>> THEN acc
         ELSE [acc EXCEPT
                 !.results = SetStatus(@, m[1].traceId, teamName, m[1].status),
                 !.tbm = IF full THEN Associate(@, m[1].traceId, branch, traceDirs) ELSE @,
                 !.valid = Append(@, m[1])])

RECURSIVE ParseLines(_, _, _, _, _, _, _)
\* index.ts 84-105: for (const line of lines), from line k on
ParseLines(lines, k, acc, teamName, branch, traceDirs, full) ==
  IF k > Len(lines) THEN acc
  ELSE ParseLines(lines, k + 1,
                  ParseLine(acc, lines[k], teamName, branch, traceDirs, full),
                  teamName, branch, traceDirs, full)

\* index.ts 48-51: the loop head, `git checkout -f`
CheckoutBranch ==
  /\ pc = "loop"
  /\ bi <= Len(branches)
  /\ attempted' = Append(attempted, branches[bi])
  /\ snap' = <<results, traceBranchMap, allTeams>>
  /\ pc' = IF Checked(branches[bi]).checkoutOk THEN "scan" ELSE "catch"
  /\ UNCHANGED <<world, disk, agg, report, render, loopvars, prev,
                 run, errors, exitCode,
                 scanned, sighted, setupFailed, readmeAtStart, wrote>>

\* index.ts 53-63: existsSync, readdirSync, the filter and the branch heading
LocateSummaries ==
  /\ pc = "scan"
  /\ scanned' = Append(scanned, branches[bi])
  /\ LET b == Checked(branches[bi])
         found == IF b.summaries = "dir" THEN SelectSummaries(b.dir) ELSE <<>>
     IN IF Len(found) > 0
        THEN /\ files' = found
             /\ fi' = 1
             /\ pc' = "files"
             /\ toc' = IF Full THEN Append(toc, Entry("branch", branches[bi], <<>>))
                       ELSE toc
             /\ bodyContent' = Append(bodyContent, Entry("branch", branches[bi], <<>>))
             /\ UNCHANGED bi
        ELSE /\ bi' = bi + 1
             /\ pc' = "loop"
             /\ UNCHANGED <<files, fi, toc, bodyContent>>
  /\ UNCHANGED <<world, disk, agg, render, branches, prev,
                 run, errors, exitCode,
                 attempted, sighted, snap, setupFailed, readmeAtStart, wrote>>

\* index.ts 65-112: one iteration of for (const file of files)
ProcessFile ==
  /\ pc = "files"
  /\ \E branch \in {branches[bi]}, file \in {files[fi]} :
     \E b \in {Checked(branch)}, teamName \in {TeamName(file)} :
     \E entry \in {e \in {b.dir[i] : i \in 1..Len(b.dir)} : e.name = file} :
     \E lines \in {Split(entry.content)} :
     \E acc \in {ParseLines(lines, 1,
                            [results |-> results, tbm |-> traceBranchMap, valid |-> <<>>],
                            teamName, branch, b.traceDirs, Full)} :
       LET heading == <<Entry("team", teamName, <<>>), Entry("link", branch, <<>>)>>
       IN /\ allTeams' = allTeams \cup {teamName}
          /\ toc' = IF Full THEN Append(toc, Entry("team", teamName, <<>>)) ELSE toc
          /\ IF entry.readable
             THEN /\ results' = acc.results
                  /\ traceBranchMap' = acc.tbm
                  /\ sighted' = sighted \cup
                       {<<acc.valid[i].traceId, BranchIndex(branch)>> : i \in 1..Len(acc.valid)}
                  /\ bodyContent' =
                       IF Full
                       THEN bodyContent \o heading \o
                            <<Entry(IF Len(acc.valid) > 0 THEN "lines" ELSE "none",
                                    teamName, acc.valid)>>
                       ELSE Append(bodyContent, Entry("file", file, entry.content))
                  /\ IF fi < Len(files)
                     THEN /\ fi' = fi + 1
                          /\ UNCHANGED <<pc, bi, files>>
                     ELSE /\ fi' = 1
                          /\ files' = <<>>
                          /\ bi' = bi + 1
                          /\ pc' = "loop"
             ELSE /\ pc' = "catch"
                  /\ bodyContent' = IF Full THEN bodyContent \o heading ELSE bodyContent
                  /\ UNCHANGED <<results, traceBranchMap, sighted, bi, files, fi>>
  /\ UNCHANGED <<world, disk, render, branches, prev,
                 run, errors, exitCode,
                 attempted, scanned, snap, setupFailed, readmeAtStart, wrote>>

\* mutant: no try/catch around the loop body, the failure rejects main()
RethrowBranchFailure ==
  /\ pc = "catch"
  /\ pc' = "rejected"
  /\ UNCHANGED <<world, disk, agg, report, render, loopvars, prev,
                 run, errors, exitCode, hist>>

\* index.ts 115-117: catch (e) { console.error(...) }, then the next branch
LogBranchFailure ==
  /\ pc = "catch"
  /\ errors' = Append(errors, Entry("Failed to process branch", branches[bi], <<>>))
  /\ bi' = bi + 1
  /\ files' = <<>>
  /\ fi' = 1
  /\ pc' = "loop"
  /\ UNCHANGED <<world, disk, agg, report, render, branches, prev,
                 run, exitCode, hist>>

\* index.ts 120-129: the loop is over; writeFileSync(OUTPUT_FILE, mergedContent).
\* Writing the two output files is taken to succeed.
WriteMergedSummary ==
  /\ pc = "loop"
  /\ bi > Len(branches)
  /\ outputFile' = [exists |-> TRUE, content |-> toc \o bodyContent]
  /\ pc' = "table"
  /\ UNCHANGED <<world, workDirExists, readme, agg, report, render, loopvars, prev,
                 run, errors, exitCode, hist>>

\* ---------------------------------------------------------------- the table
\* results.get(trace)?.get(team) || WHITE
StatusAt(res, trace, team) ==
  IF trace \in DOMAIN res /\ team \in DOMAIN res[trace] THEN res[trace][team] ELSE WHITE

\* mutant: only the first team of the sorted list is looked at
HasFailureFirstTeam(res, trace, sortedTeams) ==
  /\ trace \in DOMAIN res
  /\ sortedTeams # <<>>
  /\ StatusAt(res, trace, sortedTeams[1]) = RED

\* index.ts 144-154: some team's status for the trace is RED
HasFailure(res, trace, sortedTeams) ==
  /\ trace \in DOMAIN res
  /\ \E i \in 1..Len(sortedTeams) : StatusAt(res, trace, sortedTeams[i]) = RED

\* index.ts 132-137 / part_000 96-97
AllTraces(res) == SortTraces(DOMAIN res)
SortedTeams(teams, full) == IF full THEN SortTeamsFull(teams) ELSE SortTeamsSimple(teams)

\* index.ts 140-161
Interesting(res, allTraces, sortedTeams) ==
  LET Test(t) == HasFailure(res, t, sortedTeams) IN SelectSeq(allTraces, Test)
Boring(res, allTraces, sortedTeams) ==
  LET Test(t) == ~HasFailure(res, t, sortedTeams) IN SelectSeq(allTraces, Test)

RECURSIVE CountFrom(_, _, _, _, _)
\* index.ts 185-193: the loop over allTraces from index k, st the counts so far
CountFrom(res, team, traces, k, st) ==
  IF k > Len(traces) THEN st
  ELSE LET status == StatusAt(res, traces[k], team)
       IN CountFrom(res, team, traces, k + 1,
            IF status = RED THEN [st EXCEPT !.red = @ + 1]
            ELSE IF status = GREEN THEN [st EXCEPT !.green = @ + 1]
            ELSE [st EXCEPT !.unknown = @ + 1])

\* mutant: the counts go over the interesting traces only
TeamStatsInteresting(res, team, allTraces, interesting) ==
  CountFrom(res, team, interesting, 1, [red |-> 0, green |-> 0, unknown |-> 0])

\* index.ts 184-195 / part_000 133-146: the counts go over all traces
TeamStats(res, team, allTraces, interesting) ==
  CountFrom(res, team, allTraces, 1, [red |-> 0, green |-> 0, unknown |-> 0])

\* cells of the Markdown table
Cell(kind, n, id, team, branch) ==
  [kind |-> kind, n |-> n, id |-> id, team |-> team, branch |-> branch]
Text(s) == Cell(s, 0, <<>>, <<>>, <<>>)
Glyph(c) == Cell("glyph", c, <<>>, <<>>, <<>>)
Count(n) == Cell("count", n, <<>>, <<>>, <<>>)
TeamCell(t) == Cell("team", 0, <<>>, t, <<>>)
TraceCell(id) == Cell("trace", 0, id, <<>>, <<>>)
LinkCell(id, branch) == Cell("link", 0, id, <<>>, branch)

\* `| ${cells.join(" | ")} |`: an empty list still leaves one empty cell
Joined(cells) == IF cells = <<>> THEN <<Text("")>> ELSE cells

\* index.ts 166-172
linkify(tbm, traceId) ==
  IF traceId \in DOMAIN tbm THEN LinkCell(traceId, tbm[traceId]) ELSE TraceCell(traceId)

\* index.ts 176-219: Trace | team..., three summary rows, one row per interesting trace
FullTable(res, tbm, allTraces, sortedTeams, interesting) ==
  LET nT == Len(sortedTeams)
      stats == [i \in 1..nT |-> TeamStats(res, sortedTeams[i], allTraces, interesting)]
  IN << <<Text("Trace")>> \o Joined([i \in 1..nT |-> TeamCell(sortedTeams[i])]),
        <<Text("---")>> \o [i \in 1..nT |-> Text("---")],
        <<Glyph(RED)>> \o [i \in 1..nT |-> Count(stats[i].red)],
        <<Glyph(GREEN)>> \o [i \in 1..nT |-> Count(stats[i].green)],
        <<Glyph(WHITE)>> \o [i \in 1..nT |-> Count(stats[i].unknown)] >>
     \o [r \in 1..Len(interesting) |->
           <<linkify(tbm, interesting[r])>>
           \o [i \in 1..nT |-> Glyph(StatusAt(res, interesting[r], sortedTeams[i]))]]

\* part_000 126-157: Team | counts | interesting trace..., one row per team
SimpleTable(res, allTraces, sortedTeams, interesting) ==
  LET nI == Len(interesting)
  IN << <<Text("Team"), Glyph(RED), Glyph(GREEN), Glyph(WHITE)>>
          \o Joined([r \in 1..nI |-> TraceCell(interesting[r])]),
        [k \in 1..4 |-> Text("---")] \o [r \in 1..nI |-> Text("---")] >>
     \o [i \in 1..Len(sortedTeams) |->
           LET st == TeamStats(res, sortedTeams[i], allTraces, interesting)
           IN <<TeamCell(sortedTeams[i]), Count(st.red), Count(st.green), Count(st.unknown)>>
              \o [r \in 1..nI |-> Glyph(StatusAt(res, interesting[r], sortedTeams[i]))]]

\* index.ts 131-221
GenerateTable ==
  /\ pc = "table"
  /\ \E allTraces \in {AllTraces(results)}, sortedTeams \in {SortedTeams(allTeams, Full)} :
     \E interesting \in {Interesting(results, allTraces, sortedTeams)} :
       /\ interestingTraces' = interesting
       /\ boringTraces' = Boring(results, allTraces, sortedTeams)
       /\ mdTable' = IF Full
                     THEN FullTable(results, traceBranchMap, allTraces, sortedTeams, interesting)
                     ELSE SimpleTable(results, allTraces, sortedTeams, interesting)
  /\ pc' = "readme"
  /\ UNCHANGED <<world, disk, agg, report, loopvars, prev, run, errors, exitCode, hist>>

\* ------------------------------------------------------------- the README
\* mutant: the end marker is not asked for
MarkersFoundStartOnly(content) == IndexOf(content, startMarker) # 0

\* index.ts 232: both markers were found
MarkersFound(content) == IndexOf(content, startMarker) # 0 /\ IndexOf(content, endMarker) # 0

\* index.ts 234-240: before + "\n\n" + mdTable + "\n" + after
Splice(content, table) ==
  LET startIndex == IndexOf(content, startMarker)
      endIndex == IndexOf(content, endMarker)
      before == SubSeq(content, 1, startIndex)
      \* substring clamps a negative start to the beginning of the text
      after == SubSeq(content, IF endIndex = 0 THEN 1 ELSE endIndex, Len(content))
  IN before \o <<NLTok, NLTok, TableTok(table), NLTok>> \o after

\* index.ts 224-250
UpdateReadme ==
  /\ pc = "readme"
  /\ IF readme.exists
     THEN IF MarkersFound(readme.content)
          THEN /\ readme' = [exists |-> TRUE, content |-> Splice(readme.content, mdTable)]
               /\ wrote' = TRUE
               /\ UNCHANGED errors
          ELSE /\ errors' = Append(errors, Entry("Markers not found", <<>>, <<>>))
               /\ UNCHANGED <<readme, wrote>>
     ELSE /\ errors' = Append(errors, Entry("README not found", <<>>, <<>>))
          /\ UNCHANGED <<readme, wrote>>
  /\ pc' = "done"
  /\ UNCHANGED <<world, workDirExists, outputFile, agg, report, render, loopvars, prev,
                 run, exitCode,
                 attempted, scanned, sighted, snap, setupFailed, readmeAtStart>>

\* ------------------------------------------------------------ process end
\* index.ts 253: main().catch(console.error): a rejection is logged and the
\* promise chain settles, so the process ends with status 0 either way
Exit ==
  /\ pc \in {"done", "rejected"}
  /\ errors' = IF pc = "rejected" THEN Append(errors, Entry("rejected", <<>>, <<>>))
               ELSE errors
  /\ exitCode' = 0
  /\ pc' = "exited"
  /\ UNCHANGED <<world, disk, agg, report, render, loopvars, prev, run, hist>>

\* run.sh is started again: a new process on the files the last one left
Restart ==
  /\ pc = "exited"
  /\ run < MaxRuns
  /\ run' = run + 1
  /\ prevDone' = (~setupFailed)
  /\ prevTable' = mdTable
  /\ prevReadme' = readme
  /\ pc' = "start"
  /\ branches' = <<>>
  /\ bi' = 1
  /\ files' = <<>>
  /\ fi' = 1
  /\ results' = EmptyMap
  /\ traceBranchMap' = EmptyMap
  /\ allTeams' = {}
  /\ toc' = <<>>
  /\ bodyContent' = <<>>
  /\ interestingTraces' = <<>>
  /\ boringTraces' = <<>>
  /\ mdTable' = <<>>
  /\ errors' = <<>>
  /\ exitCode' = -1
  /\ attempted' = <<>>
  /\ scanned' = <<>>
  /\ sighted' = {}
  /\ snap' = <<EmptyMap, EmptyMap, {}>>
  /\ setupFailed' = FALSE
  /\ wrote' = FALSE
  /\ readmeAtStart' = readme
  /\ UNCHANGED <<world, disk>>

Next ==
  \/ EnsureWorkingCopy
  \/ ListBranches
  \/ CheckoutBranch
  \/ LocateSummaries
  \/ ProcessFile
  \/ LogBranchFailure
  \/ WriteMergedSummary
  \/ GenerateTable
  \/ UpdateReadme
  \/ Exit
  \/ Restart

Spec == Init /\ [][Next]_vars

\* every step of main() is a synchronous call or an awaited subprocess that
\* returns or throws: a started run keeps stepping until the process exits
FairSpec == Spec /\ WF_vars(Next)

\* ================================================================== claims
InSeq(x, q) == \E i \in 1..Len(q) : q[i] = x
Range(q) == {q[i] : i \in 1..Len(q)}

\* the run got past the table generation
Rendered == pc \in {"readme", "done"} \/ (pc = "exited" /\ ~setupFailed)
\* the branch loop of this run is over
LoopOver == pc = "table" \/ Rendered

RemoteBranch(i) == BranchMenu[remote[i]]
RemoteNames == [i \in 1..Len(remote) |-> <<BranchNames[i]>>]
IdChars == IF Full THEN IdCharsFull ELSE IdCharsSimple

\* what the working copy holds, read off the remote without running main():
\* the summary files of branch i and the matching lines of a file
SummaryEntries(i) == SelectSeq(RemoteBranch(i).dir, LAMBDA e : IsSummaryFile(e.name))
Matches(e) ==
  LET lines == Split(e.content)
      hits == SelectSeq(lines, LAMBDA l : Match(l, IdChars) # <<>>)
  IN [k \in 1..Len(hits) |-> Match(hits[k], IdChars)[1]]
\* the statuses branch i reports for (trace, team), in file and line order
Reported(i, trace, team) ==
  LET es == SummaryEntries(i)
      PerFile(e) == IF TeamName(e.name) = team
                    THEN SelectSeq(Matches(e), LAMBDA m : m.traceId = trace)
                    ELSE <<>>
      Cat[k \in 0..Len(es)] == IF k = 0 THEN <<>> ELSE Cat[k - 1] \o PerFile(es[k])
  IN Cat[Len(es)]
\* branch i was processed without a failure
Processed(i) ==
  /\ RemoteBranch(i).checkoutOk
  /\ RemoteBranch(i).summaries = "dir" =>
       \A k \in 1..Len(SummaryEntries(i)) : SummaryEntries(i)[k].readable

KnownTraces == {T1, T2, T12} \cup DOMAIN results
KnownTeams == {<<"alice">>, <<"bob">>, <<"typeberry">>} \cup allTeams
HasEntry(trace, team) == trace \in DOMAIN results /\ team \in DOMAIN results[trace]

\* C1: at the end of the run the status recorded for a (trace, team) pair is
\* that of the last matching line on the last successfully processed branch,
\* in listing order, that reports the pair (and a pair no such branch reports
\* has no status).
LastWriteWins ==
  LoopOver =>
    \A trace \in KnownTraces, team \in KnownTeams :
      LET from == { i \in 1..Len(remote) :
                      Processed(i) /\ RemoteBranch(i).summaries = "dir"
                      /\ Reported(i, trace, team) # <<>> }
      IN IF from = {} THEN ~HasEntry(trace, team)
         ELSE LET last == CHOOSE i \in from : \A j \in from : j <= i
                  seen == Reported(last, trace, team)
              IN HasEntry(trace, team)
                 /\ results[trace][team] = seen[Len(seen)].status

\* C2: a failing branch does not abort the run: every listed branch is
\* checked out in listing order, every branch whose checkout succeeds is
\* scanned, and from the loop or a caught failure the run reaches the point
\* where the merged report has been written.
NoBranchFailureAborts ==
  /\ [](LoopOver =>
          /\ attempted = RemoteNames
          /\ scanned = SelectSeq(RemoteNames, LAMBDA n : Checked(n).checkoutOk)
          /\ outputFile.exists)
  /\ (pc \in {"loop", "scan", "files", "catch"}) ~> (pc = "table")

\* a branch failed, a later branch was still scanned, the report is written
WitnessNoAbort ==
  /\ pc = "table"
  /\ \E k \in 1..Len(errors), i \in 1..Len(branches), j \in 1..Len(branches) :
       /\ errors[k].name = branches[i]
       /\ i < j
       /\ InSeq(branches[j], scanned)

\* C3: a branch that fails contributes nothing: when its failure is caught
\* the result table, the team set and the branch-to-trace association are
\* what they were when the branch was entered.
FailedBranchContributesNothing ==
  pc = "catch" => <<results, traceBranchMap, allTeams>> = snap

DataRows == SelectSeq(mdTable, LAMBDA row : row[1].kind \in {"trace", "link"})
TraceColumns == SelectSeq(mdTable[1], LAMBDA c : c.kind = "trace")

\* C4: every trace of the result table is in exactly one of the two groups,
\* it is interesting iff some team's recorded status for it is RED, and the
\* data rows (full) or trace columns (simplified) are exactly the interesting
\* traces.
Partitioning ==
  Rendered =>
    /\ \A trace \in DOMAIN results :
         /\ InSeq(trace, interestingTraces) # InSeq(trace, boringTraces)
         /\ InSeq(trace, interestingTraces) <=>
              \E team \in DOMAIN results[trace] : results[trace][team] = RED
    /\ Range(interestingTraces) \cup Range(boringTraces) = DOMAIN results
    /\ Len(interestingTraces) + Len(boringTraces) = Cardinality(DOMAIN results)
    /\ IF Full
       THEN [r \in 1..Len(DataRows) |-> DataRows[r][1].id] = interestingTraces
       ELSE [c \in 1..Len(TraceColumns) |-> TraceColumns[c].id] = interestingTraces

\* a trace failed by the second team only, next to a boring trace
WitnessPartitioning ==
  /\ Rendered
  /\ boringTraces # <<>>
  /\ \E trace \in Range(interestingTraces) :
       /\ Cardinality(DOMAIN results[trace]) >= 2
       /\ StatusAt(results, trace, SortedTeams(allTeams, Full)[1]) # RED

HasToken(content, t) == \E i \in 1..Len(content) : content[i] = t

\* C5: when the README is missing, or one of the markers is missing from it,
\* the run never writes it: its content stays what it was at the start.
TemplateSafety ==
  (\/ ~readmeAtStart.exists
   \/ ~HasToken(readmeAtStart.content, startMarker)
   \/ ~HasToken(readmeAtStart.content, endMarker))
    => readme = readmeAtStart /\ ~wrote

\* a run ended on a README that has the start marker and not the end marker
WitnessTemplateSafety ==
  /\ pc = "done"
  /\ readmeAtStart.exists
  /\ HasToken(readmeAtStart.content, startMarker)
  /\ ~HasToken(readmeAtStart.content, endMarker)

\* C6: whenever both markers occur, in any order, the rewritten README is the
\* old one with the part strictly between a start marker and a later end
\* marker replaced by the table: the text up to the start marker and from the
\* end marker on is kept, nothing of it is duplicated or dropped.
SpliceKeepsOutside ==
  wrote =>
    LET old == readmeAtStart.content
    IN \E i \in 1..Len(old), j \in 1..Len(old) :
         /\ i < j
         /\ old[i] = startMarker
         /\ old[j] = endMarker
         /\ readme.content = SubSeq(old, 1, i)
                             \o <<NLTok, NLTok, TableTok(mdTable), NLTok>>
                             \o SubSeq(old, j, Len(old))

\* C7: the process ends with a non-zero status exactly when the working copy
\* could not be established (clone, fetch or branch listing failed).
ExitStatusReflectsSetup ==
  pc = "exited" => (setupFailed <=> exitCode # 0)

\* C8: a second run on the unchanged working copy renders the same table and
\* leaves the README as the first run left it.
Idempotence ==
  (run >= 2 /\ prevDone /\ pc = "done") =>
    /\ mdTable = prevTable
    /\ readme = prevReadme

RenderedStats(team) ==
  IF Full
  THEN LET k == CHOOSE c \in 2..Len(mdTable[1]) : mdTable[1][c].team = team
       IN [red |-> mdTable[3][k].n, green |-> mdTable[4][k].n, unknown |-> mdTable[5][k].n]
  ELSE LET row == CHOOSE r \in Range(mdTable) : r[1].kind = "team" /\ r[1].team = team
       IN [red |-> row[2].n, green |-> row[3].n, unknown |-> row[4].n]
TeamRendered(team) ==
  IF Full
  THEN Cardinality({c \in 2..Len(mdTable[1]) : mdTable[1][c].team = team}) = 1
  ELSE Cardinality({r \in 1..Len(mdTable) :
                      mdTable[r][1].kind = "team" /\ mdTable[r][1].team = team}) = 1

\* C9: for every team the rendered counts are taken over all traces of the
\* result table: RED entries, GREEN entries and missing entries, which sum to
\* the number of traces.
CountsOverAllTraces ==
  Rendered =>
    \A team \in allTeams :
      /\ TeamRendered(team)
      /\ LET st == RenderedStats(team)
             reds == {t \in DOMAIN results : team \in DOMAIN results[t] /\ results[t][team] = RED}
             greens == {t \in DOMAIN results : team \in DOMAIN results[t] /\ results[t][team] = GREEN}
             missing == {t \in DOMAIN results : team \notin DOMAIN results[t]}
         IN /\ st.red = Cardinality(reds)
            /\ st.green = Cardinality(greens)
            /\ st.unknown = Cardinality(missing)
            /\ st.red + st.green + st.unknown = Cardinality(DOMAIN results)

\* a team without any entry next to a team with a pass on a boring trace
WitnessCounts ==
  /\ Rendered
  /\ interestingTraces # <<>>
  /\ \E team \in allTeams : \A t \in DOMAIN results : team \notin DOMAIN results[t]
  /\ \E team \in allTeams, t \in Range(boringTraces) : StatusAt(results, t, team) = GREEN

Located(trace) ==
  { i \in 1..Len(remote) :
      <<trace, i>> \in sighted /\ trace \in RemoteBranch(i).traceDirs }

====
